---- MODULE Spec2Model ----
(***************************************************************************)
(* qbit: a qBittorrent Web API client (lib/client.ts), the mktorrent tool   *)
(* built on it (the mktorrent function of examples/basic.ts) and the       *)
(* retorrent tool that reloads torrents with it.                           *)
(*                                                                         *)
(* Strings are modelled as sequences of byte codes so that byte order,     *)
(* hexadecimal parsing and bencoding are computed rather than assumed.     *)
(***************************************************************************)
EXTENDS Integers, Sequences, FiniteSets, TLC

VARIABLES
  pc,              \* position of the running function
  err,             \* the error the function threw ("none" when it has not)
  options,         \* the options mktorrent was called with
  name,            \* let name
  announceList,    \* let "announce-list": announceList = []
  comment,         \* let comment
  isPrivate,       \* let "private": isPrivate
  output,          \* let output
  props,           \* what client.properties(hash) resolved to
  daemonFiles,     \* what client.files(hash) resolved to
  files,           \* const files: the daemon's files mapped to {length, path}
  pieceHashes,     \* const pieceHashes = await client.pieceHashes(hash)
  pieces,          \* const pieces = new Uint8Array(...)
  info,            \* const info
  meta,            \* the object handed to encode
  torrentFile,     \* const torrentFile: Uint8Array = encode(...)
  encodeAttempted, \* encode has been called
  failedRequests,  \* the requests the daemon answered with a status that is not ok
  opened,          \* Deno.open has been called for the output
  pipe,            \* state of the pipeTo started on output.writable
  written,         \* bytes that have reached the output
  headers,         \* qBittorrent.#headers
  calls,           \* the login and logout calls that await their response
  sent,            \* the requests api has handed to fetch, oldest first
  rtPc,            \* position of retorrent in the body of its loop
  rtTorrents,      \* const torrents = await client.torrents(...)
  rtIndex,         \* index in torrents of the torrent the loop is at
  rtCheck,         \* the flag check
  daemonTorrents,  \* the hashes of the torrents the daemon holds
  rtLog            \* what retorrent has awaited so far, oldest first

\* the variables of a run of mktorrent
mkVars == <<pc, err, options, name, announceList, comment, isPrivate, output, props,
            daemonFiles, files, pieceHashes, pieces, info, meta, torrentFile,
            encodeAttempted, failedRequests, opened, pipe, written>>

\* the variables of a qBittorrent instance
clientVars == <<headers, calls, sent>>

\* the variables of a run of retorrent
rtVars == <<rtPc, rtTorrents, rtIndex, rtCheck, daemonTorrents, rtLog>>

vars == <<mkVars, clientVars, rtVars>>

----------------------------------------------------------------------------
(* Bounds *)

\* longest list of digests handed to the piece-hash assembly on its own
MaxDigests == 3
\* most files the daemon reports for a torrent
MaxFiles == 2
\* most piece hashes the daemon reports for a torrent
MaxPieces == 2
\* most requests sent through one qBittorrent instance
MaxRequests == 3
\* most torrents selected by one run of retorrent
MaxTorrents == 2

----------------------------------------------------------------------------
(* Sequences *)

Min(a, b) == IF a < b THEN a ELSE b

\* all sequences over S of length 0..n
SeqsUpTo(S, n) == UNION {[1..k -> S] : k \in 0..n}

RECURSIVE Concat(_)
\* flattens a sequence of sequences
Concat(ss) == IF ss = <<>> THEN <<>> ELSE Head(ss) \o Concat(Tail(ss))

----------------------------------------------------------------------------
(* JavaScript numbers that parseInt can return: NaN or an integer *)

NaN == [nan |-> TRUE, n |-> 0]
Num(k) == [nan |-> FALSE, n |-> k]

IsDecDigit(c) == c \in 48..57
IsLowerHex(c) == c \in 97..102
IsUpperHex(c) == c \in 65..70
IsHexDigit(c) == IsDecDigit(c) \/ IsLowerHex(c) \/ IsUpperHex(c)

\* value of one hexadecimal digit character
HexVal(c) ==
  IF IsDecDigit(c) THEN c - 48
  ELSE IF IsLowerHex(c) THEN c - 87
  ELSE c - 55

RECURSIVE HexPrefix(_, _, _)
\* the integer denoted by the longest prefix of s made of hexadecimal digits,
\* NaN when that prefix is empty
HexPrefix(s, acc, seen) ==
  IF s # <<>> /\ IsHexDigit(Head(s))
  THEN HexPrefix(Tail(s), 16 * acc + HexVal(Head(s)), TRUE)
  ELSE IF seen THEN Num(acc) ELSE NaN

RECURSIVE TrimStart(_)
TrimStart(s) == IF s # <<>> /\ Head(s) = 32 THEN TrimStart(Tail(s)) ELSE s

\* the digits of parseInt(s, 16) once the sign is gone: a 0x prefix is skipped
ParseUnsigned16(u) ==
  IF Len(u) >= 2 /\ u[1] = 48 /\ u[2] \in {88, 120}
  THEN HexPrefix(SubSeq(u, 3, Len(u)), 0, FALSE)
  ELSE HexPrefix(u, 0, FALSE)

Negate(r) == IF r.nan THEN r ELSE Num(0 - r.n)

\* parseInt(t, 16) for t without leading white space
ParseSigned16(t) ==
  IF t # <<>> /\ Head(t) = 45 THEN Negate(ParseUnsigned16(Tail(t)))
  ELSE IF t # <<>> /\ Head(t) = 43 THEN ParseUnsigned16(Tail(t))
  ELSE ParseUnsigned16(t)

\* parseInt(s, 16): leading white space, a sign and a 0x prefix are skipped,
\* then the longest run of hexadecimal digits is read
ParseInt16(s) == ParseSigned16(TrimStart(s))

\* a substr that takes one character
Substr2OneChar(hex, c) == SubSeq(hex, c + 1, Min(c + 1, Len(hex)))

\* hex.substr(c, 2), c counted from 0
Substr2(hex, c) == SubSeq(hex, c + 1, Min(c + 2, Len(hex)))

\* storing a number in a Uint8Array element: NaN becomes 0, the rest is
\* taken modulo 2^8
ToUint8(x) == IF x.nan THEN 0 ELSE x.n % 256

\* for (let c = 0; c < hex.length; c += 2) acc.push(parseInt(hex.substr(c, 2), 16)),
\* each number as the Uint8Array stores it
HexToBytes(hex) ==
  [k \in 1..((Len(hex) + 1) \div 2) |-> ToUint8(ParseInt16(Substr2(hex, 2 * (k - 1))))]

\* new Uint8Array(pieceHashes.reduce(...)): it has no failing path
AssemblePieces(hashes) == Concat([i \in 1..Len(hashes) |-> HexToBytes(hashes[i])])

----------------------------------------------------------------------------
(* Digests the daemon may report *)

HexChars == <<48, 49, 50, 51, 52, 53, 54, 55, 56, 57, 97, 98, 99, 100, 101, 102>>

\* 40 lower-case hexadecimal characters, no two neighbouring pairs alike
DigestA == [i \in 1..40 |-> HexChars[((7 * i) % 16) + 1]]
\* 40 hexadecimal characters with upper-case letters
DigestB == [i \in 1..40 |-> IF i % 3 = 0 THEN 65 + (i % 6) ELSE 48 + (i % 10)]
\* 39 characters: odd length
DigestOdd == SubSeq(DigestA, 1, 39)
\* 38 characters: even length, too short
DigestShort == SubSeq(DigestB, 1, 38)
\* 40 characters, a "g" opening the third pair
DigestNonHexFirst == [DigestA EXCEPT ![5] = 103]
\* 40 characters, a "g" closing the third pair
DigestNonHexSecond == [DigestA EXCEPT ![6] = 103]

DigestSamples ==
  {DigestA, DigestB, DigestOdd, DigestShort, DigestNonHexFirst, DigestNonHexSecond}

WellFormedDigest(d) == Len(d) = 40 /\ \A i \in 1..Len(d) : IsHexDigit(d[i])

----------------------------------------------------------------------------
(* JavaScript values that reach the encoder *)

VUndef == [t |-> "undefined"]
VNaN == [t |-> "nan"]
VInt(k) == [t |-> "int", n |-> k]
VStr(bs) == [t |-> "str", b |-> bs]
VList(vs) == [t |-> "list", l |-> vs]
VDict(es) == [t |-> "dict", d |-> es]

\* !v is false: v is a string that is not empty
Truthy(v) == v.t = "str" /\ v.b # <<>>

\* An object is the sequence of its properties in insertion order.
Entry(key, val) == [k |-> key, v |-> val]
Keys(obj) == [i \in 1..Len(obj) |-> obj[i].k]
KeySet(obj) == {obj[i].k : i \in 1..Len(obj)}
HasKey(obj, key) == key \in KeySet(obj)
Get(obj, key) == obj[CHOOSE i \in 1..Len(obj) : obj[i].k = key].v
\* delete obj[key]
Delete(obj, key) == SelectSeq(obj, LAMBDA e : e.k # key)

\* property names, as bytes
K_announce == <<97, 110, 110, 111, 117, 110, 99, 101>>
K_announce_list == <<97, 110, 110, 111, 117, 110, 99, 101, 45, 108, 105, 115, 116>>
K_comment == <<99, 111, 109, 109, 101, 110, 116>>
K_created_by == <<99, 114, 101, 97, 116, 101, 100, 32, 98, 121>>
K_creation_date == <<99, 114, 101, 97, 116, 105, 111, 110, 32, 100, 97, 116, 101>>
K_info == <<105, 110, 102, 111>>
K_name == <<110, 97, 109, 101>>
K_length == <<108, 101, 110, 103, 116, 104>>
K_files == <<102, 105, 108, 101, 115>>
K_piece_length == <<112, 105, 101, 99, 101, 32, 108, 101, 110, 103, 116, 104>>
K_pieces == <<112, 105, 101, 99, 101, 115>>
K_private == <<112, 114, 105, 118, 97, 116, 101>>
K_path == <<112, 97, 116, 104>>

----------------------------------------------------------------------------
(* encode, imported from deno.land/x/bencode: its source is not part of the *)
(* repository, it is modelled from the design's description of the encoder *)

RECURSIVE LexLess(_, _)
\* a sorts before b by raw byte value
LexLess(a, b) ==
  IF b = <<>> THEN FALSE
  ELSE IF a = <<>> THEN TRUE
  ELSE IF Head(a) # Head(b) THEN Head(a) < Head(b)
  ELSE LexLess(Tail(a), Tail(b))

RECURSIVE InsertSorted(_, _)
InsertSorted(e, s) ==
  IF s = <<>> THEN <<e>>
  ELSE IF LexLess(e.k, Head(s).k) THEN <<e>> \o s
  ELSE <<Head(s)>> \o InsertSorted(e, Tail(s))

\* an encoder that emits the properties as they were inserted
SortEntriesInsertionOrder(obj) == obj

RECURSIVE SortEntries(_)
\* the properties of a dictionary in the order they are emitted
SortEntries(obj) ==
  IF obj = <<>> THEN <<>> ELSE InsertSorted(Head(obj), SortEntries(Tail(obj)))

RECURSIVE Digits(_)
\* ASCII decimal digits of a natural number, no leading zeros
Digits(k) == IF k < 10 THEN <<48 + k>> ELSE Digits(k \div 10) \o <<48 + (k % 10)>>

EncodeInt(k) ==
  <<105>> \o (IF k < 0 THEN <<45>> \o Digits(0 - k) ELSE Digits(k)) \o <<101>>

EncodeStr(bs) == Digits(Len(bs)) \o <<58>> \o bs

RECURSIVE Encodable(_)
\* the value is a tree of the four variants
Encodable(v) ==
  CASE v.t = "int" -> TRUE
    [] v.t = "str" -> TRUE
    [] v.t = "list" -> \A i \in 1..Len(v.l) : Encodable(v.l[i])
    [] v.t = "dict" -> \A i \in 1..Len(v.d) : Encodable(v.d[i].v)
    [] OTHER -> FALSE

RECURSIVE EncodeValue(_)
RECURSIVE EncodeEntries(_)
EncodeValue(v) ==
  CASE v.t = "int" -> EncodeInt(v.n)
    [] v.t = "str" -> EncodeStr(v.b)
    [] v.t = "list" ->
         <<108>> \o Concat([i \in 1..Len(v.l) |-> EncodeValue(v.l[i])]) \o <<101>>
    [] v.t = "dict" -> <<100>> \o EncodeEntries(SortEntries(v.d)) \o <<101>>

\* the entries of a dictionary, each as its key and its value
EncodeEntries(es) ==
  IF es = <<>> THEN <<>>
  ELSE EncodeStr(Head(es).k) \o EncodeValue(Head(es).v) \o EncodeEntries(Tail(es))

----------------------------------------------------------------------------
(* Reading a bencoded byte sequence back: the keys of a dictionary in the   *)
(* order they stand in the bytes                                           *)

RECURSIVE ReadNat(_, _, _)
\* reads decimal digits from position p up to the ":" that ends them
ReadNat(bs, p, acc) ==
  IF bs[p] = 58 THEN [n |-> acc, next |-> p + 1]
  ELSE ReadNat(bs, p + 1, 10 * acc + (bs[p] - 48))

RECURSIVE IndexOfE(_, _)
IndexOfE(bs, p) == IF bs[p] = 101 THEN p ELSE IndexOfE(bs, p + 1)

RECURSIVE SkipValue(_, _)
RECURSIVE SkipItems(_, _)
\* the position right after the value that starts at p
SkipValue(bs, p) ==
  IF bs[p] = 105 THEN IndexOfE(bs, p) + 1
  ELSE IF bs[p] \in {100, 108} THEN SkipItems(bs, p + 1)
  ELSE LET r == ReadNat(bs, p, 0) IN r.next + r.n
\* the position right after the "e" that closes the list or dictionary whose
\* next item starts at p
SkipItems(bs, p) == IF bs[p] = 101 THEN p + 1 ELSE SkipItems(bs, SkipValue(bs, p))

RECURSIVE ReadEntries(_, _)
\* the (key, position of its value) pairs of a dictionary whose next key starts at p
ReadEntries(bs, p) ==
  IF bs[p] = 101 THEN <<>>
  ELSE LET r == ReadNat(bs, p, 0)
           key == SubSeq(bs, r.next, r.next + r.n - 1)
           vpos == r.next + r.n
       IN <<[k |-> key, at |-> vpos]>> \o ReadEntries(bs, SkipValue(bs, vpos))

\* bs[p] is the "d" of a dictionary
EncodedEntries(bs, p) == ReadEntries(bs, p + 1)

StrictlyAscending(ks) == \A i \in 1..(Len(ks) - 1) : LexLess(ks[i], ks[i + 1])

----------------------------------------------------------------------------
(* qBittorrent: the session kept by api, login and logout *)

\* headers.set(n, v)
SetHeader(h, n, v) == [x \in DOMAIN h \cup {n} |-> IF x = n THEN v ELSE h[x]]
\* headers.delete(n)
DeleteHeader(h, n) == [x \in DOMAIN h \ {n} |-> h[x]]
\* headers.get(n); "none" stands for null
GetHeader(h, n) == IF n \in DOMAIN h THEN h[n] ELSE "none"

\* the headers set by the constructor
ConstructedHeaders ==
  [x \in {"Referer", "User-Agent", "Content-Type"} |->
     IF x = "Referer" THEN "http://localhost:8080"
     ELSE IF x = "User-Agent" THEN "deno"
     ELSE "application/x-www-form-urlencoded;charset=UTF-8"]

\* { ...this.#headers }: a spread copies the own enumerable properties of its
\* operand. A Headers object keeps its entries in an internal list, reached
\* through get, set and the iterator: no entry is a property, none is copied.
SpreadHeaders(h) == [x \in {} |-> "none"]

\* { ...this.#headers, ...headers }: init holds the headers of the call
RequestHeaders(h, init) ==
  LET base == SpreadHeaders(h)
  IN [x \in DOMAIN base \cup DOMAIN init |-> IF x \in DOMAIN init THEN init[x] ELSE base[x]]

NoHeaders == [x \in {} |-> "none"]

\* what api hands to fetch; stored and loggingOut record the instance's state
\* at that moment
Request(path) ==
  [path |-> path,
   cookie |-> GetHeader(RequestHeaders(headers, NoHeaders), "Cookie"),
   stored |-> GetHeader(headers, "Cookie"),
   loggingOut |-> "logout" \in calls]

\* the paths of the requests made once the instance exists
OtherPaths == {"app/version", "torrents/info"}

\* the Set-Cookie values of the daemon's responses; "null" is what
\* headers.get gives, and set stores, when the response has none
SetCookieSamples == {"SID=1", "SID=2", "null"}

InitClientVars ==
  /\ headers = ConstructedHeaders
  /\ calls = {}
  /\ sent = <<>>

\* no run of retorrent
InitNoRetorrent ==
  /\ rtPc = "none"
  /\ rtTorrents = <<>>
  /\ rtIndex = 0
  /\ rtCheck = TRUE
  /\ daemonTorrents = {}
  /\ rtLog = <<>>

----------------------------------------------------------------------------
(* What the caller and the daemon may supply *)

\* the announce lists a caller gives: none, ["u"], ["v", "u"]
AnnounceListSamples == {<<>>, <<<<117>>>>, <<<<118>>, <<117>>>>}

OptionSamples ==
  [name : {VUndef, VStr(<<110>>)},
   announceList : AnnounceListSamples,
   comment : {VUndef, VStr(<<107>>)},
   private : {"undefined", "true", "false"},
   \* undefined stands for every output written to a file that is opened by name
   output : {"undefined", "-", "stream"}]

\* the entry the daemon lists for the hash: name "t", tracker "w"
TorrentSample == [name |-> <<116>>, tracker |-> <<119>>]

PropertiesSamples ==
  {[comment |-> VStr(<<>>), creation_date |-> VInt(1600000000),
    created_by |-> VStr(<<113>>), piece_size |-> 1],
   [comment |-> VStr(<<99>>), creation_date |-> VInt(1600000000),
    created_by |-> VStr(<<113>>), piece_size |-> 2]}

\* files under the root folder "r": "r/a" (1 byte) and "r/d/c" (3 bytes)
RootedFiles == {[name |-> <<114, 47, 97>>, size |-> 1],
                [name |-> <<114, 47, 100, 47, 99>>, size |-> 3]}
\* the file of a torrent without a root folder: "b" (2 bytes)
FlatFiles == {[name |-> <<98>>, size |-> 2]}

FileLists == SeqsUpTo(RootedFiles, MaxFiles) \cup SeqsUpTo(FlatFiles, MaxFiles)

\* the digest the daemon reports for a piece of the torrent; malformed digests
\* are left to the assembly on its own
HashSamples == {DigestA}

----------------------------------------------------------------------------
(* mktorrent *)

RECURSIVE Split(_, _)
\* name.split("/"): cur is the segment being read
Split(s, cur) ==
  IF s = <<>> THEN <<cur>>
  ELSE IF Head(s) = 47 THEN <<cur>> \o Split(Tail(s), <<>>)
  ELSE Split(Tail(s), Append(cur, Head(s)))

\* path.shift(): removes the first segment, whatever it is
Shift(path) == IF path = <<>> THEN <<>> ELSE Tail(path)

\* ({ name, size }) => { const path = name.split("/"); path.shift(); return { length: size, path } }
MapFile(f) == [length |-> f.size, path |-> Shift(Split(f.name, <<>>))]

MapFiles(fs) == [i \in 1..Len(fs) |-> MapFile(fs[i])]

\* a mapped file as the object { length, path }
FileValue(f) ==
  VDict(<<Entry(K_length, VInt(f.length)),
          Entry(K_path, VList([i \in 1..Len(f.path) |-> VStr(f.path[i])]))>>)

FilesValue(fs) == VList([i \in 1..Len(fs) |-> FileValue(fs[i])])

\* Number(isPrivate)
NumberOf(b) == IF b = "true" THEN VInt(1) ELSE IF b = "false" THEN VInt(0) ELSE VNaN

\* the info object without either delete
InfoLiteral(nm, fs, pieceSize, ps, priv) ==
  <<Entry(K_name, nm),
    Entry(K_length, VInt(fs[1].length)),
    Entry(K_files, FilesValue(fs)),
    Entry(K_piece_length, VInt(pieceSize)),
    Entry(K_pieces, VStr(ps)),
    Entry(K_private, NumberOf(priv))>>

\* a build that keeps length beside files
BuildInfoKeepLength(nm, fs, pieceSize, ps, priv) ==
  LET lit == InfoLiteral(nm, fs, pieceSize, ps, priv)
  IN IF Len(fs) = 1 THEN Delete(lit, K_files) ELSE lit

\* const info = {...}; delete info.length when there are several files,
\* delete info.files when there is one
BuildInfo(nm, fs, pieceSize, ps, priv) ==
  LET lit == InfoLiteral(nm, fs, pieceSize, ps, priv)
      a == IF Len(fs) > 1 THEN Delete(lit, K_length) ELSE lit
  IN IF Len(fs) = 1 THEN Delete(a, K_files) ELSE a

\* the object literal handed to encode
BuildMeta(al, cm, pr, inf) ==
  <<Entry(K_announce, VStr(al[1])),
    Entry(K_announce_list, VList([i \in 1..Len(al) |-> VStr(al[i])])),
    Entry(K_comment, cm),
    Entry(K_created_by, pr.created_by),
    Entry(K_creation_date, pr.creation_date),
    Entry(K_info, VDict(inf))>>

NoProps == [comment |-> VUndef, creation_date |-> VUndef, created_by |-> VUndef,
            piece_size |-> 0]

InitLocals ==
  /\ err = "none"
  /\ props = NoProps
  /\ daemonFiles = <<>>
  /\ files = <<>>
  /\ pieces = <<>>
  /\ info = <<>>
  /\ meta = <<>>
  /\ torrentFile = <<>>
  /\ encodeAttempted = FALSE
  /\ failedRequests = {}
  /\ opened = FALSE
  /\ pipe = "none"
  /\ written = <<>>

Init ==
  /\ pc = "start"
  /\ options \in OptionSamples
  /\ name = options.name
  /\ announceList = options.announceList
  /\ comment = options.comment
  /\ isPrivate = options.private
  /\ output = options.output
  /\ pieceHashes = <<>>
  /\ InitLocals
  /\ InitClientVars
  /\ InitNoRetorrent

Fail(e) == pc' = "failed" /\ err' = e

\* a mktorrent that opens the output file before it looks anything up
ConnectOpeningOutput ==
  /\ pc = "start"
  /\ pc' = IF ~Truthy(name) \/ announceList = <<>> THEN "torrents" ELSE "properties"
  /\ opened' = (output = "undefined")
  /\ UNCHANGED <<err, options, name, announceList, comment, isPrivate, output, props,
                 daemonFiles, files, pieceHashes, pieces, info, meta, torrentFile,
                 encodeAttempted, failedRequests, pipe, written>>
  /\ UNCHANGED <<clientVars, rtVars>>

\* client = await qBittorrent.connect(...), or the caller's client
Connect ==
  /\ pc = "start"
  /\ pc' = IF ~Truthy(name) \/ announceList = <<>> THEN "torrents" ELSE "properties"
  /\ UNCHANGED <<err, options, name, announceList, comment, isPrivate, output, props,
                 daemonFiles, files, pieceHashes, pieces, info, meta, torrentFile,
                 encodeAttempted, failedRequests, opened, pipe, written>>
  /\ UNCHANGED <<clientVars, rtVars>>

\* connect: login throws when the response is not ok
ConnectFails ==
  /\ pc = "start"
  /\ Fail("LoginError")
  /\ UNCHANGED <<options, name, announceList, comment, isPrivate, output, props,
                 daemonFiles, files, pieceHashes, pieces, info, meta, torrentFile,
                 encodeAttempted, failedRequests, opened, pipe, written>>
  /\ UNCHANGED <<clientVars, rtVars>>

\* const [torrent] = await client.torrents({ hashes: hash })
TorrentsReply ==
  /\ pc = "torrents"
  /\ name' = IF ~Truthy(name) THEN VStr(TorrentSample.name) ELSE name
  /\ announceList' = IF announceList = <<>> THEN <<TorrentSample.tracker>> ELSE announceList
  /\ pc' = "properties"
  /\ UNCHANGED <<err, options, comment, isPrivate, output, props,
                 daemonFiles, files, pieceHashes, pieces, info, meta, torrentFile,
                 encodeAttempted, failedRequests, opened, pipe, written>>
  /\ UNCHANGED <<clientVars, rtVars>>

\* the daemon lists no torrent for the hash
TorrentsReplyEmpty ==
  /\ pc = "torrents"
  /\ Fail("TorrentDoesNotExist")
  /\ UNCHANGED <<options, name, announceList, comment, isPrivate, output, props,
                 daemonFiles, files, pieceHashes, pieces, info, meta, torrentFile,
                 encodeAttempted, failedRequests, opened, pipe, written>>
  /\ UNCHANGED <<clientVars, rtVars>>

\* const {...} = await client.properties(hash); comment = existingComment || ""
PropertiesReply ==
  /\ pc = "properties"
  /\ \E p \in PropertiesSamples :
       /\ props' = p
       /\ comment' = IF Truthy(comment) THEN comment
                     ELSE IF Truthy(p.comment) THEN p.comment ELSE VStr(<<>>)
  /\ pc' = "files"
  /\ UNCHANGED <<err, options, name, announceList, isPrivate, output,
                 daemonFiles, files, pieceHashes, pieces, info, meta, torrentFile,
                 encodeAttempted, failedRequests, opened, pipe, written>>
  /\ UNCHANGED <<clientVars, rtVars>>

\* properties resolves to null when the response is not ok: destructuring throws
PropertiesReplyNotOk ==
  /\ pc = "properties"
  /\ failedRequests' = failedRequests \cup {"properties"}
  /\ Fail("TypeError")
  /\ UNCHANGED <<options, name, announceList, comment, isPrivate, output, props,
                 daemonFiles, files, pieceHashes, pieces, info, meta, torrentFile,
                 encodeAttempted, opened, pipe, written>>
  /\ UNCHANGED <<clientVars, rtVars>>

\* const files = await client.files(hash).then(files => files.map(...))
FilesReply ==
  /\ pc = "files"
  /\ \E fs \in FileLists :
       /\ daemonFiles' = fs
       /\ files' = MapFiles(fs)
  /\ pc' = "pieceHashes"
  /\ UNCHANGED <<err, options, name, announceList, comment, isPrivate, output, props,
                 pieceHashes, pieces, info, meta, torrentFile,
                 encodeAttempted, failedRequests, opened, pipe, written>>
  /\ UNCHANGED <<clientVars, rtVars>>

\* files resolves to [] when the response is not ok
FilesReplyNotOk ==
  /\ pc = "files"
  /\ failedRequests' = failedRequests \cup {"files"}
  /\ daemonFiles' = <<>>
  /\ files' = MapFiles(<<>>)
  /\ pc' = "pieceHashes"
  /\ UNCHANGED <<err, options, name, announceList, comment, isPrivate, output, props,
                 pieceHashes, pieces, info, meta, torrentFile,
                 encodeAttempted, opened, pipe, written>>
  /\ UNCHANGED <<clientVars, rtVars>>

\* From the piece hashes to the first await that follows: the pieces are
\* assembled, info and the outer object are built and encoded, and the output
\* is chosen.
BuildEncodeAndOutput(hashes) ==
  /\ pieceHashes' = hashes
  /\ pieces' = AssemblePieces(hashes)
  /\ IF files = <<>>
     THEN \* firstFile is undefined: firstFile.length throws
          /\ Fail("TypeError")
          /\ UNCHANGED <<info, meta, torrentFile, encodeAttempted, output, opened, pipe>>
     ELSE /\ info' = BuildInfo(name, files, props.piece_size, pieces', isPrivate)
          /\ meta' = BuildMeta(announceList, comment, props, info')
          /\ encodeAttempted' = TRUE
          /\ IF ~Encodable(VDict(meta'))
             THEN /\ Fail("EncodingError")
                  /\ UNCHANGED <<torrentFile, output, opened, pipe>>
             ELSE /\ torrentFile' = EncodeValue(VDict(meta'))
                  /\ err' = err
                  /\ IF output = "undefined"
                     THEN \* output = `${hash}.torrent`; await Deno.open(output, ...)
                          /\ output' = "path"
                          /\ opened' = TRUE
                          /\ pipe' = pipe
                          /\ pc' = "open"
                     ELSE \* Deno.stdout or the caller's stream: pipeTo is started
                          \* and mktorrent returns
                          /\ output' = IF output = "-" THEN "stdout" ELSE output
                          /\ opened' = opened
                          /\ pipe' = "piping"
                          /\ pc' = "done"

\* const pieceHashes = await client.pieceHashes(hash)
HashesReply ==
  /\ pc = "pieceHashes"
  /\ \E hs \in SeqsUpTo(HashSamples, MaxPieces) : BuildEncodeAndOutput(hs)
  /\ UNCHANGED <<options, name, announceList, comment, isPrivate, props,
                 daemonFiles, files, failedRequests, written>>
  /\ UNCHANGED <<clientVars, rtVars>>

\* pieceHashes resolves to [] when the response is not ok
HashesReplyNotOk ==
  /\ pc = "pieceHashes"
  /\ failedRequests' = failedRequests \cup {"pieceHashes"}
  /\ BuildEncodeAndOutput(<<>>)
  /\ UNCHANGED <<options, name, announceList, comment, isPrivate, props,
                 daemonFiles, files, written>>
  /\ UNCHANGED <<clientVars, rtVars>>

\* Deno.open resolves: pipeTo is started and mktorrent returns
OpenReply ==
  /\ pc = "open"
  /\ output' = "file"
  /\ pipe' = "piping"
  /\ pc' = "done"
  /\ UNCHANGED <<err, options, name, announceList, comment, isPrivate, props,
                 daemonFiles, files, pieceHashes, pieces, info, meta, torrentFile,
                 encodeAttempted, failedRequests, opened, written>>
  /\ UNCHANGED <<clientVars, rtVars>>

\* Deno.open rejects
OpenFails ==
  /\ pc = "open"
  /\ Fail("OpenError")
  /\ UNCHANGED <<options, name, announceList, comment, isPrivate, output, props,
                 daemonFiles, files, pieceHashes, pieces, info, meta, torrentFile,
                 encodeAttempted, failedRequests, opened, pipe, written>>
  /\ UNCHANGED <<clientVars, rtVars>>

\* the pipe hands the one chunk of the response body to the output
PipeWrite ==
  /\ pipe = "piping"
  /\ written' = torrentFile
  /\ pipe' = "flushed"
  /\ UNCHANGED <<pc, err, options, name, announceList, comment, isPrivate, output, props,
                 daemonFiles, files, pieceHashes, pieces, info, meta, torrentFile,
                 encodeAttempted, failedRequests, opened>>
  /\ UNCHANGED <<clientVars, rtVars>>

\* the pipe closes the output
PipeClose ==
  /\ pipe = "flushed"
  /\ pipe' = "closed"
  /\ UNCHANGED <<pc, err, options, name, announceList, comment, isPrivate, output, props,
                 daemonFiles, files, pieceHashes, pieces, info, meta, torrentFile,
                 encodeAttempted, failedRequests, opened, written>>
  /\ UNCHANGED <<clientVars, rtVars>>

\* the write to the output fails: the promise of pipeTo, which nothing holds, rejects
PipeFails ==
  /\ pipe = "piping"
  /\ pipe' = "errored"
  /\ UNCHANGED <<pc, err, options, name, announceList, comment, isPrivate, output, props,
                 daemonFiles, files, pieceHashes, pieces, info, meta, torrentFile,
                 encodeAttempted, failedRequests, opened, written>>
  /\ UNCHANGED <<clientVars, rtVars>>

Next ==
  \/ Connect
  \/ ConnectFails
  \/ TorrentsReply
  \/ TorrentsReplyEmpty
  \/ PropertiesReply
  \/ PropertiesReplyNotOk
  \/ FilesReply
  \/ FilesReplyNotOk
  \/ HashesReply
  \/ HashesReplyNotOk
  \/ OpenReply
  \/ OpenFails
  \/ PipeWrite
  \/ PipeClose
  \/ PipeFails

Spec == Init /\ [][Next]_vars

----------------------------------------------------------------------------
(* A qBittorrent instance in use *)

\* variables of mktorrent while only the client runs
InitClient ==
  /\ pc = "client"
  /\ options = [name |-> VUndef, announceList |-> <<>>, comment |-> VUndef,
                private |-> "undefined", output |-> "undefined"]
  /\ name = options.name
  /\ announceList = options.announceList
  /\ comment = options.comment
  /\ isPrivate = options.private
  /\ output = options.output
  /\ pieceHashes = <<>>
  /\ InitLocals
  /\ InitClientVars
  /\ InitNoRetorrent

\* login(): the request is made, the response is awaited
LoginSend ==
  /\ "login" \notin calls
  /\ Len(sent) < MaxRequests
  /\ sent' = Append(sent, Request("auth/login"))
  /\ calls' = calls \cup {"login"}
  /\ UNCHANGED headers
  /\ UNCHANGED <<mkVars, rtVars>>

\* login(): the response is ok, its Set-Cookie is stored as Cookie
LoginReplyOk ==
  /\ "login" \in calls
  /\ \E c \in SetCookieSamples : headers' = SetHeader(headers, "Cookie", c)
  /\ calls' = calls \ {"login"}
  /\ UNCHANGED sent
  /\ UNCHANGED <<mkVars, rtVars>>

\* login(): the response is not ok, or fetch rejects: login throws
LoginReplyNotOk ==
  /\ "login" \in calls
  /\ calls' = calls \ {"login"}
  /\ UNCHANGED <<headers, sent>>
  /\ UNCHANGED <<mkVars, rtVars>>

\* logout(): the request is made, the response is awaited
LogoutSend ==
  /\ "logout" \notin calls
  /\ Len(sent) < MaxRequests
  /\ sent' = Append(sent, Request("auth/logout"))
  /\ calls' = calls \cup {"logout"}
  /\ UNCHANGED headers
  /\ UNCHANGED <<mkVars, rtVars>>

\* logout(): the response has come, whatever its status: Cookie is deleted
LogoutReply ==
  /\ "logout" \in calls
  /\ headers' = DeleteHeader(headers, "Cookie")
  /\ calls' = calls \ {"logout"}
  /\ UNCHANGED sent
  /\ UNCHANGED <<mkVars, rtVars>>

\* logout(): fetch rejects, logout throws before the delete
LogoutRejected ==
  /\ "logout" \in calls
  /\ calls' = calls \ {"logout"}
  /\ UNCHANGED <<headers, sent>>
  /\ UNCHANGED <<mkVars, rtVars>>

\* any other method of the instance: one call of api
ApiRequest ==
  /\ Len(sent) < MaxRequests
  /\ \E path \in OtherPaths : sent' = Append(sent, Request(path))
  /\ UNCHANGED <<headers, calls>>
  /\ UNCHANGED <<mkVars, rtVars>>

NextClient ==
  \/ LoginSend
  \/ LoginReplyOk
  \/ LoginReplyNotOk
  \/ LogoutSend
  \/ LogoutReply
  \/ LogoutRejected
  \/ ApiRequest

SpecClient == InitClient /\ [][NextClient]_vars

----------------------------------------------------------------------------
(* The piece-hash assembly on its own *)

InitPieces ==
  /\ pc = "assemble"
  /\ options = [name |-> VUndef, announceList |-> <<>>, comment |-> VUndef,
                private |-> "undefined", output |-> "undefined"]
  /\ name = options.name
  /\ announceList = options.announceList
  /\ comment = options.comment
  /\ isPrivate = options.private
  /\ output = options.output
  /\ InitLocals
  /\ InitClientVars
  /\ InitNoRetorrent
  /\ pieceHashes \in SeqsUpTo(DigestSamples, MaxDigests)

Assemble ==
  /\ pc = "assemble"
  /\ pieces' = AssemblePieces(pieceHashes)
  /\ pc' = "assembled"
  /\ UNCHANGED <<err, options, name, announceList, comment, isPrivate, output, props,
                 daemonFiles, files, pieceHashes, info, meta, torrentFile,
                 encodeAttempted, failedRequests, opened, pipe, written>>
  /\ UNCHANGED <<clientVars, rtVars>>

NextPieces == Assemble

SpecPieces == InitPieces /\ [][NextPieces]_vars

----------------------------------------------------------------------------
(* retorrent *)

\* the hashes of the torrents the daemon may list
HashSet == {"h1", "h2", "h3"}

\* the entry the daemon lists for a hash
TorrentEntry(h) ==
  [hash |-> h,
   save_path |-> IF h = "h1" THEN "/a" ELSE "/b",
   category |-> IF h = "h2" THEN "films" ELSE "",
   tags |-> IF h = "h3" THEN "x,y" ELSE "",
   up_limit |-> IF h = "h1" THEN 100 ELSE 0,
   dl_limit |-> IF h = "h2" THEN 200 ELSE 0]

\* lists without a repeated hash
DistinctSeqs(S, n) ==
  {q \in SeqsUpTo(S, n) : \A i, j \in 1..Len(q) : i # j => q[i] # q[j]}

\* the body of the request client.add([torrentFile], {...}) makes: add renames
\* skipChecking to skip_checking, api passes the body through JSON and
\* URLSearchParams, which turn the File in urls into "[object Object]"
AddBody(t, check) ==
  [urls |-> "[object Object]",
   skip_checking |-> ~check,
   savepath |-> t.save_path,
   category |-> t.category,
   tags |-> t.tags,
   upLimit |-> t.up_limit,
   downLimit |-> t.dl_limit]

NoBody == [urls |-> "none"]

InitRetorrent ==
  /\ pc = "retorrent"
  /\ options = [name |-> VUndef, announceList |-> <<>>, comment |-> VUndef,
                private |-> "undefined", output |-> "undefined"]
  /\ name = options.name
  /\ announceList = options.announceList
  /\ comment = options.comment
  /\ isPrivate = options.private
  /\ output = options.output
  /\ pieceHashes = <<>>
  /\ InitLocals
  /\ InitClientVars
  /\ rtTorrents \in DistinctSeqs(HashSet, MaxTorrents)
  /\ rtCheck \in BOOLEAN
  /\ rtIndex = 1
  /\ rtPc = IF rtTorrents = <<>> THEN "done" ELSE "mktorrent"
  /\ daemonTorrents = {rtTorrents[i] : i \in 1..Len(rtTorrents)}
  /\ rtLog = <<>>

rtHash == rtTorrents[rtIndex]

Logged(op, result, body) == [op |-> op, hash |-> rtHash, result |-> result, body |-> body]

\* a retorrent that catches the failure of mktorrent and goes on
MktorrentThrowsCaught ==
  /\ rtPc = "mktorrent"
  /\ rtLog' = Append(rtLog, Logged("mktorrent", "threw", NoBody))
  /\ rtPc' = "delete"
  /\ UNCHANGED <<rtTorrents, rtIndex, rtCheck, daemonTorrents>>
  /\ UNCHANGED <<mkVars, clientVars>>

\* const metadata = await mktorrent(hash, {...}) resolves
MktorrentResolves ==
  /\ rtPc = "mktorrent"
  /\ rtLog' = Append(rtLog, Logged("mktorrent", "resolved", NoBody))
  /\ rtPc' = "delete"
  /\ UNCHANGED <<rtTorrents, rtIndex, rtCheck, daemonTorrents>>
  /\ UNCHANGED <<mkVars, clientVars>>

\* mktorrent throws: nothing catches it, retorrent ends
MktorrentThrows ==
  /\ rtPc = "mktorrent"
  /\ rtLog' = Append(rtLog, Logged("mktorrent", "threw", NoBody))
  /\ rtPc' = "crashed"
  /\ UNCHANGED <<rtTorrents, rtIndex, rtCheck, daemonTorrents>>
  /\ UNCHANGED <<mkVars, clientVars>>

\* await client.delete(hash): the daemon accepts and drops the torrent
DeleteOk ==
  /\ rtPc = "delete"
  /\ rtLog' = Append(rtLog, Logged("delete", "ok", NoBody))
  /\ daemonTorrents' = daemonTorrents \ {rtHash}
  /\ rtPc' = "add"
  /\ UNCHANGED <<rtTorrents, rtIndex, rtCheck>>
  /\ UNCHANGED <<mkVars, clientVars>>

\* the daemon answers the delete with a status that is not ok: delete returns
\* the response and retorrent goes on
DeleteNotOk ==
  /\ rtPc = "delete"
  /\ rtLog' = Append(rtLog, Logged("delete", "not ok", NoBody))
  /\ rtPc' = "add"
  /\ UNCHANGED <<rtTorrents, rtIndex, rtCheck, daemonTorrents>>
  /\ UNCHANGED <<mkVars, clientVars>>

\* fetch rejects: delete throws, retorrent ends
DeleteRejected ==
  /\ rtPc = "delete"
  /\ rtLog' = Append(rtLog, Logged("delete", "rejected", NoBody))
  /\ rtPc' = "crashed"
  /\ UNCHANGED <<rtTorrents, rtIndex, rtCheck, daemonTorrents>>
  /\ UNCHANGED <<mkVars, clientVars>>

\* the end of the body of the loop: on to the next torrent
AfterAdd ==
  /\ rtIndex' = rtIndex + 1
  /\ rtPc' = IF rtIndex < Len(rtTorrents) THEN "mktorrent" ELSE "done"

\* await client.add([torrentFile], {...}): the daemon accepts and holds the torrent
AddOk ==
  /\ rtPc = "add"
  /\ rtLog' = Append(rtLog, Logged("add", "ok", AddBody(TorrentEntry(rtHash), rtCheck)))
  /\ daemonTorrents' = daemonTorrents \cup {rtHash}
  /\ AfterAdd
  /\ UNCHANGED <<rtTorrents, rtCheck>>
  /\ UNCHANGED <<mkVars, clientVars>>

\* the daemon answers the add with a status that is not ok: add returns the
\* response and retorrent goes on
AddNotOk ==
  /\ rtPc = "add"
  /\ rtLog' = Append(rtLog, Logged("add", "not ok", AddBody(TorrentEntry(rtHash), rtCheck)))
  /\ AfterAdd
  /\ UNCHANGED <<rtTorrents, rtCheck, daemonTorrents>>
  /\ UNCHANGED <<mkVars, clientVars>>

\* fetch rejects: add throws, retorrent ends
AddRejected ==
  /\ rtPc = "add"
  /\ rtLog' = Append(rtLog, Logged("add", "rejected", AddBody(TorrentEntry(rtHash), rtCheck)))
  /\ rtPc' = "crashed"
  /\ UNCHANGED <<rtTorrents, rtIndex, rtCheck, daemonTorrents>>
  /\ UNCHANGED <<mkVars, clientVars>>

NextRetorrent ==
  \/ MktorrentResolves
  \/ MktorrentThrows
  \/ DeleteOk
  \/ DeleteNotOk
  \/ DeleteRejected
  \/ AddOk
  \/ AddNotOk
  \/ AddRejected

SpecRetorrent == InitRetorrent /\ [][NextRetorrent]_vars

----------------------------------------------------------------------------
(* Claims about mktorrent *)

\* the build has reached encode with the objects it made
Built == encodeAttempted
\* encode has returned the bytes of the torrent file
Encoded == pc \in {"open", "done"}

RECURSIVE TotalSize(_)
TotalSize(fs) == IF fs = <<>> THEN 0 ELSE Head(fs).size + TotalSize(Tail(fs))

CeilDiv(a, b) == (a + b - 1) \div b

(* C1: with one file reported, info has length, equal to that file's size,  *)
(* and no files; with two or more, info has files, in the reported order,  *)
(* and no length; info never has both.                                     *)
InfoLayoutExclusive ==
  Built =>
    /\ ~(HasKey(info, K_length) /\ HasKey(info, K_files))
    /\ Len(daemonFiles) = 1 =>
         /\ HasKey(info, K_length)
         /\ ~HasKey(info, K_files)
         /\ Get(info, K_length) = VInt(daemonFiles[1].size)
    /\ Len(daemonFiles) >= 2 =>
         /\ HasKey(info, K_files)
         /\ ~HasKey(info, K_length)
         /\ LET fl == Get(info, K_files)
            IN /\ fl.t = "list"
               /\ Len(fl.l) = Len(daemonFiles)
               /\ \A i \in 1..Len(daemonFiles) :
                    /\ fl.l[i].t = "dict"
                    /\ Get(fl.l[i].d, K_length) = VInt(daemonFiles[i].size)

WitnessTwoFilesBuilt ==
  /\ pc = "done"
  /\ Len(daemonFiles) = 2
  /\ daemonFiles[1] # daemonFiles[2]
  /\ HasKey(info, K_files)

(* C2: announce is the first announce URL and announce-list is a list of    *)
(* lists of one URL each, one per announce URL, in the order of the list.  *)
AnnounceListOneUrlTiers ==
  Encoded =>
    /\ Get(meta, K_announce) = VStr(announceList[1])
    /\ Get(meta, K_announce_list) =
         VList([i \in 1..Len(announceList) |-> VList(<<VStr(announceList[i])>>)])

(* C5: a build whose number of piece hashes is not ceil(total size / piece  *)
(* length) fails and produces no output: no bytes are encoded, none written.*)
PieceCountMismatchFails ==
  (/\ pc \in {"open", "done", "failed"}
   /\ daemonFiles # <<>>
   /\ props.piece_size > 0
   /\ Len(pieceHashes) # CeilDiv(TotalSize(daemonFiles), props.piece_size))
    => (pc = "failed" /\ torrentFile = <<>> /\ written = <<>>)

(* C6: when a request for the properties, the files or the piece hashes     *)
(* fails, the build fails: no torrent file is encoded from a default value.*)
NoErrorSuppressed ==
  (Encoded \/ torrentFile # <<>>) => failedRequests = {}

\* the failures of a build over what the daemon holds
ValidationFailures == {"TorrentDoesNotExist", "TypeError"}

(* C7: when mktorrent ends in a validation failure, encode has not been     *)
(* called, the output has not been opened and nothing has been written.    *)
FailureBeforeEncoding ==
  (pc = "failed" /\ err \in ValidationFailures) =>
    /\ ~encodeAttempted
    /\ torrentFile = <<>>
    /\ ~opened
    /\ pipe = "none"
    /\ written = <<>>

WitnessFailsOnEmptyFileList ==
  /\ pc = "failed"
  /\ err = "TypeError"
  /\ props # NoProps
  /\ files = <<>>
  /\ pieceHashes # <<>>

(* C10: in the encoded torrent file the keys of the outer dictionary and    *)
(* those of the info dictionary stand in ascending byte order, whatever    *)
(* order they were inserted in.                                            *)
EncodedKeysAscending ==
  Encoded =>
    LET outer == EncodedEntries(torrentFile, 1)
        infoAt == outer[CHOOSE i \in 1..Len(outer) : outer[i].k = K_info].at
        inner == EncodedEntries(torrentFile, infoAt)
    IN /\ StrictlyAscending(Keys(outer))
       /\ KeySet(outer) = KeySet(meta)
       /\ StrictlyAscending(Keys(inner))
       /\ KeySet(inner) = KeySet(info)

WitnessUnsortedInfoEncoded ==
  /\ pc = "done"
  /\ Keys(info) = <<K_name, K_length, K_piece_length, K_pieces, K_private>>
  /\ ~StrictlyAscending(Keys(info))

(* C11: in every build, whatever the options, info has the key private and  *)
(* its value is the integer 0 or the integer 1.                            *)
PrivateIsZeroOrOne ==
  Built =>
    /\ HasKey(info, K_private)
    /\ Get(info, K_private).t = "int"
    /\ Get(info, K_private).n \in {0, 1}

\* the value is there: neither undefined nor the empty string
Available(v) == v.t = "int" \/ Truthy(v)

(* C12: comment, created by and creation date are keys of the outer        *)
(* dictionary exactly when the caller or the daemon supplies a value for   *)
(* them; a value that is absent gives no key, not an empty value.          *)
OptionalKeysOnlyWhenAvailable ==
  Encoded =>
    /\ HasKey(meta, K_comment) <=> (Available(options.comment) \/ Available(props.comment))
    /\ HasKey(meta, K_created_by) <=> Available(props.created_by)
    /\ HasKey(meta, K_creation_date) <=> Available(props.creation_date)
    /\ \A i \in 1..Len(meta) :
         meta[i].k \in {K_comment, K_created_by, K_creation_date} => Available(meta[i].v)

\* the segments of a reported file name
Segments(f) == Split(f.name, <<>>)

(* C13: each mapped file keeps the order and the size of the reported file; *)
(* its path is the reported segments without the leading root folder when  *)
(* there is one, all of them when there is none, and it is never empty.    *)
PathsRelativeToRoot ==
  (pc \in {"pieceHashes", "open", "done", "failed"} /\ daemonFiles # <<>>) =>
    /\ Len(files) = Len(daemonFiles)
    /\ \A i \in 1..Len(daemonFiles) :
         /\ files[i].length = daemonFiles[i].size
         /\ files[i].path # <<>>
         /\ files[i].path =
              IF Len(Segments(daemonFiles[i])) > 1
              THEN Tail(Segments(daemonFiles[i])) ELSE Segments(daemonFiles[i])

(* C16: when mktorrent has returned, the torrent file has been written to   *)
(* the output in full and the write is over; a write that failed has made  *)
(* mktorrent fail.                                                         *)
ResolvedMeansWritten ==
  pc = "done" => (pipe = "closed" /\ written = torrentFile)

----------------------------------------------------------------------------
(* Claims about the session of a qBittorrent instance *)

(* C8: every request other than the login itself is sent with a session     *)
(* cookie, also when login was never called, failed, or logout was called. *)
RequestsAlwaysAuthenticated ==
  \A i \in 1..Len(sent) : sent[i].path # "auth/login" => sent[i].cookie # "none"

(* C9: a request sent after a login succeeded and before logout is called   *)
(* carries the cookie that login took from Set-Cookie; a request sent      *)
(* when no login has succeeded, or after logout returned, carries none.    *)
CookieCarriedWhileLoggedIn ==
  \A i \in 1..Len(sent) :
    /\ (sent[i].stored # "none" /\ ~sent[i].loggingOut) => sent[i].cookie = sent[i].stored
    /\ sent[i].stored = "none" => sent[i].cookie = "none"

----------------------------------------------------------------------------
(* Claims about retorrent *)

\* the add carries what the daemon listed for the torrent
CarriesOldEntry(body, h) ==
  /\ body.savepath = TorrentEntry(h).save_path
  /\ body.category = TorrentEntry(h).category
  /\ body.tags = TorrentEntry(h).tags
  /\ body.upLimit = TorrentEntry(h).up_limit
  /\ body.downLimit = TorrentEntry(h).dl_limit

NoTorrentLost ==
  rtPc \in {"done", "crashed"} =>
    \A i \in 1..Len(rtTorrents) : rtTorrents[i] \in daemonTorrents

----------------------------------------------------------------------------
(* Claims about the piece-hash assembly *)

(* C3: for n digests of 40 hexadecimal characters each, pieces has exactly  *)
(* 20*n bytes and byte 20*i+j is the value of the j-th pair of characters  *)
(* of digest i; no digests give no bytes.                                  *)
PiecesDecodeDigests ==
  (pc = "assembled" /\ \A i \in 1..Len(pieceHashes) : WellFormedDigest(pieceHashes[i]))
    => /\ Len(pieces) = 20 * Len(pieceHashes)
       /\ \A i \in 0..(Len(pieceHashes) - 1) : \A j \in 0..19 :
            pieces[20 * i + j + 1] =
              16 * HexVal(pieceHashes[i + 1][2 * j + 1]) + HexVal(pieceHashes[i + 1][2 * j + 2])

WitnessTwoDigestsAssembled ==
  /\ pc = "assembled"
  /\ pieceHashes = <<DigestA, DigestB>>
  /\ Len(pieces) = 40

(* C4: a digest of odd length, with a character that is not hexadecimal, or *)
(* not 40 characters long makes the assembly fail with an error and yield  *)
(* no bytes.                                                               *)
MalformedDigestRejected ==
  (pc = "assembled" /\ \E i \in 1..Len(pieceHashes) : ~WellFormedDigest(pieceHashes[i]))
    => (err # "none" /\ pieces = <<>>)

====
